---- MODULE Spec2Model ----
(***************************************************************************)
(* Appointment booking (AppointmentService) and the notification pipeline  *)
(* (scheduler, queue consumer, NotificationService.processNotification)    *)
(* of chronic-care-api, as state machines over the rows of the             *)
(* appointments, appointment_series and notifications tables.              *)
(*                                                                         *)
(* Time is counted in whole slots; an ISO timestamp in UTC is its slot     *)
(* number, and addMinutes(start, duration) is start + duration.            *)
(***************************************************************************)
EXTENDS Integers, Sequences, FiniteSets, TLC

(***************************************************************************)
(* Bounds of the model.                                                    *)
(***************************************************************************)
MaxAppts == 2          \* rows the appointments table may hold
MaxTime == 2           \* appointments lie inside [0, MaxTime]
MaxSeriesLen == 2      \* appointments listed in one series request
MaxNotifs == 1         \* rows the notifications table may hold
MaxQueued == 2         \* messages of one notification that may wait in the queue
MaxSends == 4          \* transport invocations counted per notification
MaxSpan == 3           \* the conflict check is tried on intervals inside [0, MaxSpan]
MaxDue == 3            \* rows of the notifications table one scheduler run is tried on
MaxSendTime == 2       \* send times 0..MaxSendTime; the last lies beyond the lookahead
SelectLimit == 2       \* the LIMIT of the scheduler's query (1000), scaled to MaxDue rows
MaxMessages == 3       \* queue messages followed one by one
MaxDeliveries == 4     \* deliveries of one message to the consumer

Tenants == {"tA", "tB"}
Providers == {"p1", "p2"}
Clients == {"c1", "c2"}

Times == 0..MaxTime
Spans == 0..MaxSpan
Starts == 0..(MaxTime - 1)
ApptIds == 1..MaxAppts
NotifIds == 1..MaxNotifs

(***************************************************************************)
(* chk_appointment_status: the statuses a row may hold.                    *)
(***************************************************************************)
Statuses ==
  {"scheduled", "confirmed", "arrived", "in-progress", "completed", "cancelled", "no-show"}

(* status NOT IN ('cancelled', 'no-show') *)
Live(status) == status \notin {"cancelled", "no-show"}

VARIABLES
  appointments,     \* the appointments table: a sequence of rows, id = index
  seriesCount,      \* number of rows of appointment_series
  lastOp,           \* the last service call: its arguments and its outcome
  txn,              \* per client: an open createAppointment transaction
  notifications,    \* the notifications table, by id
  queue,            \* messages of the notifications queue, counted per notification id
  sends,            \* per notification: how often a channel transport was invoked
  successes,        \* per notification: how often a channel transport accepted the message
  batch,            \* the rows a running scheduler pass selected and has not yet queued
  retrySel,         \* the rows a running retry sweep selected and has not yet reset
  dispatch,         \* the last delivery to processNotification: row id and branch taken
  listing,          \* the last findAvailableSlots call: its tenant and the slots it returned
  quietCall,        \* the last isQuietHours call: its arguments and its result
  channelCall,      \* the last selectChannel call: its arguments and its result
  workerLog,        \* the last processNotificationMessage: the error caught and what it logged
  pendingNotifications, \* the rows the last scheduler run selected, in the order of its query
  messages,         \* messages of the queue followed one by one: place, header, deliveries
  cache,            \* the appointment entries of the Redis cache, by key
  reader            \* a getAppointmentById call in flight: its position and the row it read

apptVars == <<appointments, seriesCount, lastOp, txn, listing>>

notifVars == <<notifications, queue, sends, successes, batch, retrySel, dispatch>>

prefVars == <<quietCall, channelCall>>

workerVars == <<workerLog, pendingNotifications, messages>>

cacheVars == <<cache, reader>>

NoOp ==
  [op |-> "none", tenant |-> "none", result |-> "none", id |-> 0, conflictId |-> 0,
   provider |-> "none", start |-> 0, end |-> 0, members |-> <<>>, published |-> 0]

IdleTxn == [pc |-> "idle", tenant |-> "none", provider |-> "none", start |-> 0, end |-> 0, result |-> "none"]

(* checkAppointmentConflicts with the first clause closed at the end of    *)
(* the existing appointment: an appointment ending at the proposed start   *)
(* is flagged.                                                             *)
checkAppointmentConflictsClosed(rows, providerId, startTime, endTime) ==
  {i \in 1..Len(rows) :
     /\ rows[i].provider = providerId
     /\ Live(rows[i].status)
     /\ \/ (rows[i].start <= startTime /\ rows[i].end >= startTime)
        \/ (rows[i].start < endTime /\ rows[i].end >= endTime)
        \/ (rows[i].start >= startTime /\ rows[i].end <= endTime)}

(* checkAppointmentConflicts without the status filter: cancelled and      *)
(* no-show appointments are reported as conflicts.                         *)
checkAppointmentConflictsAnyStatus(rows, providerId, startTime, endTime) ==
  {i \in 1..Len(rows) :
     /\ rows[i].provider = providerId
     /\ \/ (rows[i].start <= startTime /\ rows[i].end > startTime)
        \/ (rows[i].start < endTime /\ rows[i].end >= endTime)
        \/ (rows[i].start >= startTime /\ rows[i].end <= endTime)}

(***************************************************************************)
(* The WHERE clause of checkAppointmentConflicts: the ids of the rows of   *)
(* the provider, in a live status, that match one of the three clauses.    *)
(***************************************************************************)
checkAppointmentConflicts(rows, providerId, startTime, endTime) ==
  {i \in 1..Len(rows) :
     /\ rows[i].provider = providerId
     /\ Live(rows[i].status)
     /\ \/ (rows[i].start <= startTime /\ rows[i].end > startTime)
        \/ (rows[i].start < endTime /\ rows[i].end >= endTime)
        \/ (rows[i].start >= startTime /\ rows[i].end <= endTime)}

(***************************************************************************)
(* idx_appointments_provider_time: a unique index on (provider_id,         *)
(* scheduled_start) over the rows whose status is live.                    *)
(***************************************************************************)
idx_appointments_provider_time(rows) ==
  \A i, j \in 1..Len(rows) :
    (i # j /\ Live(rows[i].status) /\ Live(rows[j].status) /\ rows[i].provider = rows[j].provider)
      => rows[i].start # rows[j].start

(* chk_appointment_times *)
chk_appointment_times(rows) == \A i \in 1..Len(rows) : rows[i].end > rows[i].start

(* The constraints the database enforces on every write to appointments. *)
TableOk(rows) == idx_appointments_provider_time(rows) /\ chk_appointment_times(rows)

(* A row as the INSERTs of createAppointment and createAppointmentSeries    *)
(* write it: duration_minutes is the duration the end was computed from.   *)
Row(t, p, s, e, st) ==
  [tenant |-> t, provider |-> p, start |-> s, end |-> e, status |-> st, duration |-> e - s]

NoNotification ==
  [status |-> "none", retry_count |-> 0, due |-> FALSE, cooled |-> FALSE,
   notification_type |-> "none", delivery_details |-> "{}"]

NoWorkerLog == [id |-> 0, threw |-> FALSE, code |-> "none", statusCode |-> 0, shouldRetry |-> FALSE]

NoDispatch == [id |-> 0, outcome |-> "none"]

NoListing == [tenant |-> "none", slots |-> {}]

NoCall == [called |-> FALSE]

(* The key `appointment:${tenantId}:${appointmentId}`. *)
cacheKey(tenantId, appointmentId) == <<tenantId, appointmentId>>

NoEntry == [cached |-> FALSE]

EmptyCache == [k \in Tenants \X ApptIds |-> NoEntry]

IdleReader == [pc |-> "idle", tenant |-> "none", id |-> 0, row |-> NoEntry, result |-> NoEntry]

(* cache.del(key) *)
cache_del(key) == [cache EXCEPT ![key] = NoEntry]

(* cache.setex(key, ttl, JSON.stringify(value)) *)
cache_setex(key, value) == [cache EXCEPT ![key] = value]

NotifInit ==
  /\ cache = EmptyCache
  /\ reader = IdleReader
  /\ dispatch = NoDispatch
  /\ quietCall = NoCall
  /\ channelCall = NoCall
  /\ workerLog = NoWorkerLog
  /\ pendingNotifications = <<>>
  /\ messages = <<>>
  /\ notifications = [n \in NotifIds |-> NoNotification]
  /\ queue = [n \in NotifIds |-> 0]
  /\ sends = [n \in NotifIds |-> 0]
  /\ successes = [n \in NotifIds |-> 0]
  /\ batch = {}
  /\ retrySel = {}

Init ==
  /\ appointments = <<>>
  /\ seriesCount = 0
  /\ lastOp = NoOp
  /\ txn = [c \in Clients |-> IdleTxn]
  /\ listing = NoListing
  /\ NotifInit

(***************************************************************************)
(* Inputs of the service calls.                                            *)
(***************************************************************************)
Durations(s) == 1..(MaxTime - s)

Call(op, tenantId) == [NoOp EXCEPT !.op = op, !.tenant = tenantId]

(* WHERE tenant_id = $1 AND id = $2 finds no row. *)
NotFound(tenantId, appointmentId) ==
  \/ appointmentId > Len(appointments)
  \/ appointments[appointmentId].tenant # tenantId

(* createAppointment with the INSERT and the notification messages ahead   *)
(* of the conflict check and no rollback: a rejected call leaves its row   *)
(* and its messages behind.                                                *)
createAppointmentInsertFirst(tenantId, providerId, scheduled_start, duration_minutes, publishFails) ==
  LET endTime == scheduled_start + duration_minutes
      conflicts == checkAppointmentConflicts(appointments, providerId, scheduled_start, endTime)
      inserted == Append(appointments,
                         Row(tenantId, providerId, scheduled_start, endTime, "scheduled"))
      call == [Call("createAppointment", tenantId) EXCEPT
                 !.provider = providerId, !.start = scheduled_start, !.end = endTime,
                 !.published = IF publishFails THEN 0 ELSE 4]
  IN
  /\ Len(appointments) < MaxAppts
  /\ appointments' = inserted
  /\ IF conflicts # {}
       THEN \E c \in conflicts : lastOp' = [call EXCEPT !.result = "Conflict", !.conflictId = c]
       ELSE lastOp' = [call EXCEPT !.result = "ok", !.id = Len(inserted)]
  /\ UNCHANGED <<seriesCount, txn, listing, notifVars, prefVars, workerVars, cacheVars>>

(***************************************************************************)
(* AppointmentService.createAppointment, the whole call in one step:       *)
(* BEGIN, conflict check, INSERT, COMMIT, then the four notification       *)
(* messages of queueAppointmentNotifications.  The messages go to the      *)
(* queue; no row of the notifications table is written.  A publish that    *)
(* fails (publishFails: the first one) throws after the COMMIT: the caller *)
(* gets the error, the ROLLBACK of the catch block finds nothing to undo.  *)
(***************************************************************************)
createAppointment(tenantId, providerId, scheduled_start, duration_minutes, publishFails) ==
  LET endTime == scheduled_start + duration_minutes
      conflicts == checkAppointmentConflicts(appointments, providerId, scheduled_start, endTime)
      inserted == Append(appointments,
                         Row(tenantId, providerId, scheduled_start, endTime, "scheduled"))
      call == [Call("createAppointment", tenantId) EXCEPT
                 !.provider = providerId, !.start = scheduled_start, !.end = endTime]
  IN
  /\ conflicts = {} => Len(appointments) < MaxAppts
  /\ IF conflicts # {}
       THEN /\ \E c \in conflicts :
                 lastOp' = [call EXCEPT !.result = "Conflict", !.conflictId = c]
            /\ UNCHANGED appointments
       ELSE IF TableOk(inserted)
         THEN /\ appointments' = inserted
              /\ lastOp' = IF publishFails
                             THEN [call EXCEPT !.result = "QueueError", !.id = Len(inserted)]
                             ELSE [call EXCEPT !.result = "ok", !.id = Len(inserted),
                                               !.published = 4]
         ELSE /\ lastOp' = [call EXCEPT !.result = "DbError"]
              /\ UNCHANGED appointments
  /\ UNCHANGED <<seriesCount, txn, listing, notifVars, prefVars, workerVars, cacheVars>>

(***************************************************************************)
(* updateAppointment: the keys of updateData become the SET list of one    *)
(* UPDATE; an empty SET list is an Error, a missing row NotFound, and a    *)
(* row the constraints refuse rolls the transaction back.                  *)
(***************************************************************************)
UpdateDatas ==
  {<<>>}
    \cup {[status |-> st] : st \in Statuses}
    \cup {[scheduled_start |-> t] : t \in Times}
    \cup {[scheduled_end |-> t] : t \in Times}
    \cup {[duration_minutes |-> d] : d \in 1..MaxTime}
    \cup {[scheduled_start |-> s, scheduled_end |-> s + d] : s \in Starts, d \in 1..MaxTime}

ApplyUpdate(row, updateData) ==
  [tenant |-> row.tenant,
   provider |-> row.provider,
   start |-> IF "scheduled_start" \in DOMAIN updateData
               THEN updateData.scheduled_start ELSE row.start,
   end |-> IF "scheduled_end" \in DOMAIN updateData
             THEN updateData.scheduled_end ELSE row.end,
   status |-> IF "status" \in DOMAIN updateData THEN updateData.status ELSE row.status,
   duration |-> IF "duration_minutes" \in DOMAIN updateData
                  THEN updateData.duration_minutes ELSE row.duration]

updateAppointment(tenantId, appointmentId, updateData) ==
  LET call == [Call("updateAppointment", tenantId) EXCEPT !.id = appointmentId]
      updated == [appointments EXCEPT
                    ![appointmentId] = ApplyUpdate(appointments[appointmentId], updateData)]
  IN
  /\ IF NotFound(tenantId, appointmentId)
       THEN /\ lastOp' = [call EXCEPT !.result = "NotFound"]
            /\ UNCHANGED <<appointments, cache>>
       ELSE IF DOMAIN updateData = {}
         THEN /\ lastOp' = [call EXCEPT !.result = "Error"]
              /\ UNCHANGED <<appointments, cache>>
         ELSE IF TableOk(updated)
           THEN /\ appointments' = updated
                /\ cache' = cache_del(cacheKey(tenantId, appointmentId))
                /\ lastOp' = [call EXCEPT !.result = "ok"]
           ELSE /\ lastOp' = [call EXCEPT !.result = "DbError"]
                /\ UNCHANGED <<appointments, cache>>
  /\ UNCHANGED <<seriesCount, txn, listing, notifVars, prefVars, workerVars, reader>>

(***************************************************************************)
(* cancelAppointment: one UPDATE to 'cancelled' by tenant and id, COMMIT,  *)
(* then one appointment_cancelled message.                                 *)
(***************************************************************************)
cancelAppointment(tenantId, appointmentId, publishFails) ==
  LET call == [Call("cancelAppointment", tenantId) EXCEPT !.id = appointmentId]
  IN
  /\ IF NotFound(tenantId, appointmentId)
       THEN /\ lastOp' = [call EXCEPT !.result = "NotFound"]
            /\ UNCHANGED <<appointments, cache>>
       ELSE /\ appointments' = [appointments EXCEPT ![appointmentId].status = "cancelled"]
            /\ cache' = cache_del(cacheKey(tenantId, appointmentId))
            /\ lastOp' = IF publishFails
                           THEN [call EXCEPT !.result = "QueueError"]
                           ELSE [call EXCEPT !.result = "ok", !.published = 1]
  /\ UNCHANGED <<seriesCount, txn, listing, notifVars, prefVars, workerVars, reader>>

(***************************************************************************)
(* checkinAppointment: one UPDATE to 'arrived' by id.                      *)
(***************************************************************************)
checkinAppointment(tenantId, appointmentId) ==
  LET call == [Call("checkinAppointment", tenantId) EXCEPT !.id = appointmentId]
      updated == [appointments EXCEPT ![appointmentId].status = "arrived"]
  IN
  /\ IF NotFound(tenantId, appointmentId)
       THEN /\ lastOp' = [call EXCEPT !.result = "NotFound"]
            /\ UNCHANGED <<appointments, cache>>
       ELSE IF TableOk(updated)
         THEN /\ appointments' = updated
              /\ cache' = cache_del(cacheKey(tenantId, appointmentId))
              /\ lastOp' = [call EXCEPT !.result = "ok"]
         ELSE /\ lastOp' = [call EXCEPT !.result = "DbError"]
              /\ UNCHANGED <<appointments, cache>>
  /\ UNCHANGED <<seriesCount, txn, listing, notifVars, prefVars, workerVars, reader>>

(***************************************************************************)
(* getAppointmentById in one step: the cached entry on a hit; on a miss    *)
(* the row of the tenant with that id, which is then stored under the key, *)
(* or null (NoEntry) when there is none.                                   *)
(***************************************************************************)
getAppointmentById(tenantId, appointmentId) ==
  LET key == cacheKey(tenantId, appointmentId)
  IN IF cache[key] # NoEntry
       THEN [appointment |-> cache[key], cache |-> cache]
       ELSE IF NotFound(tenantId, appointmentId)
         THEN [appointment |-> NoEntry, cache |-> cache]
         ELSE [appointment |-> appointments[appointmentId],
               cache |-> cache_setex(key, appointments[appointmentId])]

(***************************************************************************)
(* rescheduleAppointment: the appointment through getAppointmentById, the  *)
(* conflict check at the new time for the appointment's provider, then the *)
(* UPDATE of start, end and duration, COMMIT, cache.del of the             *)
(* appointment's key and one appointment_rescheduled message.              *)
(***************************************************************************)
rescheduleAppointment(tenantId, appointmentId, newStartTime, duration, publishFails) ==
  LET endTime == newStartTime + duration
      found == getAppointmentById(tenantId, appointmentId)
      providerId == found.appointment.provider
      conflicts == checkAppointmentConflicts(appointments, providerId, newStartTime, endTime)
      updated == [appointments EXCEPT
                    ![appointmentId].start = newStartTime, ![appointmentId].end = endTime,
                    ![appointmentId].duration = duration]
      call == [Call("rescheduleAppointment", tenantId) EXCEPT
                 !.id = appointmentId, !.start = newStartTime, !.end = endTime]
  IN
  /\ IF found.appointment = NoEntry
       THEN /\ lastOp' = [call EXCEPT !.result = "NotFound"]
            /\ UNCHANGED <<appointments, cache>>
       ELSE IF conflicts # {}
         THEN /\ \E c \in conflicts :
                   lastOp' = [call EXCEPT
                                !.result = "Conflict", !.conflictId = c, !.provider = providerId]
              /\ cache' = found.cache
              /\ UNCHANGED appointments
         ELSE IF TableOk(updated)
           THEN /\ appointments' = updated
                /\ cache' = cache_del(cacheKey(tenantId, appointmentId))
                /\ lastOp' = IF publishFails
                               THEN [call EXCEPT
                                       !.result = "QueueError", !.provider = providerId]
                               ELSE [call EXCEPT
                                       !.result = "ok", !.provider = providerId,
                                       !.published = 1]
           ELSE /\ lastOp' = [call EXCEPT !.result = "DbError", !.provider = providerId]
                /\ cache' = found.cache
                /\ UNCHANGED appointments
  /\ UNCHANGED <<seriesCount, txn, listing, notifVars, prefVars, workerVars, reader>>

(***************************************************************************)
(* createAppointmentSeries: the series row, then one INSERT per listed     *)
(* appointment, each followed by its four notification messages, and the   *)
(* COMMIT after the last one.  The first INSERT the constraints refuse, or *)
(* a publish that fails (publishFails: the first one), rolls the whole     *)
(* transaction back.                                                       *)
(***************************************************************************)
Members ==
  {m \in [start : Starts, duration : 1..MaxTime] : m.start + m.duration <= MaxTime}

SeriesRequests == UNION {[1..n -> Members] : n \in 1..MaxSeriesLen}

RECURSIVE SeriesInsert(_, _, _, _, _)
SeriesInsert(rows, tenantId, providerId, members, k) ==
  IF k > Len(members)
    THEN [rows |-> rows, ok |-> TRUE, inserted |-> k - 1]
    ELSE LET next == Append(rows, Row(tenantId, providerId, members[k].start,
                                      members[k].start + members[k].duration, "scheduled"))
         IN IF TableOk(next)
              THEN SeriesInsert(next, tenantId, providerId, members, k + 1)
              ELSE [rows |-> rows, ok |-> FALSE, inserted |-> k - 1]

createAppointmentSeries(tenantId, providerId, members, publishFails) ==
  LET run == SeriesInsert(appointments, tenantId, providerId, members, 1)
      call == [Call("createAppointmentSeries", tenantId) EXCEPT
                 !.provider = providerId, !.members = members]
  IN
  /\ Len(appointments) + Len(members) <= MaxAppts
  /\ IF publishFails /\ run.inserted >= 1
       THEN /\ lastOp' = [call EXCEPT !.result = "QueueError"]
            /\ UNCHANGED <<appointments, seriesCount>>
       ELSE IF run.ok
         THEN /\ appointments' = run.rows
              /\ seriesCount' = seriesCount + 1
              /\ lastOp' = [call EXCEPT !.result = "ok", !.published = 4 * run.inserted]
         ELSE /\ lastOp' = [call EXCEPT !.result = "DbError", !.published = 4 * run.inserted]
              /\ UNCHANGED <<appointments, seriesCount>>
  /\ UNCHANGED <<txn, listing, notifVars, prefVars, workerVars, cacheVars>>

(* The updates tried in sequences of calls: those of the time columns, and *)
(* of the status to the initial status and to two terminal ones.           *)
SequenceUpdateDatas ==
  {u \in UpdateDatas :
     "status" \in DOMAIN u => u.status \in {"scheduled", "completed", "cancelled"}}

(***************************************************************************)
(* The calls of the users of one tenant about the appointments of one      *)
(* provider, in any order, with a queue that accepts every message.        *)
(***************************************************************************)
Next ==
  \/ \E s \in Starts :
       \E d \in Durations(s) : createAppointment("tA", "p1", s, d, FALSE)
  \/ \E i \in ApptIds, u \in SequenceUpdateDatas : updateAppointment("tA", i, u)
  \/ \E i \in ApptIds : cancelAppointment("tA", i, FALSE)
  \/ \E i \in ApptIds : checkinAppointment("tA", i)
  \/ \E i \in ApptIds, s \in Starts :
       \E d \in Durations(s) : rescheduleAppointment("tA", i, s, d, FALSE)
  \/ \E m \in SeriesRequests : createAppointmentSeries("tA", "p1", m, FALSE)

vars == <<appointments, seriesCount, lastOp, txn, notifications, queue, sends, successes, batch,
          retrySel, dispatch, listing, quietCall, channelCall, workerLog,
          pendingNotifications, messages, cache, reader>>

Spec == Init /\ [][Next]_vars

(***************************************************************************)
(* The conflict check on every table the constraints admit: the tables of  *)
(* up to MaxAppts rows, and one createAppointment call on each.  The rows  *)
(* and the proposed interval lie inside [0, MaxSpan], so that an interval  *)
(* may lie strictly inside another one.                                    *)
(***************************************************************************)
Rows ==
  {Row(r.tenant, r.provider, r.start, r.end, r.status) :
     r \in {q \in [tenant : Tenants, provider : Providers, start : Times, end : Times,
                   status : Statuses] :
              q.end > q.start}}

Tables == {t \in UNION {[1..n -> Rows] : n \in 0..MaxAppts} : TableOk(t)}

\* The tables that hold the rows of one tenant only.
RowsOf(tenantId) ==
  {Row(r.tenant, r.provider, r.start, r.end, r.status) :
     r \in {q \in [tenant : {tenantId}, provider : Providers, start : Spans, end : Spans,
                   status : Statuses] :
              q.end > q.start}}

TablesOf(tenantId) ==
  {t \in UNION {[1..n -> RowsOf(tenantId)] : n \in 0..MaxAppts} : TableOk(t)}

InitConflict ==
  /\ appointments \in TablesOf("tA")
  /\ seriesCount = 0
  /\ lastOp = NoOp
  /\ txn = [c \in Clients |-> IdleTxn]
  /\ listing = NoListing
  /\ NotifInit

NextConflict ==
  /\ lastOp = NoOp
  /\ \E p \in Providers, s \in 0..(MaxSpan - 1), f \in BOOLEAN :
       \E d \in 1..(MaxSpan - s) : createAppointment("tA", p, s, d, f)

SpecConflict == InitConflict /\ [][NextConflict]_vars

(***************************************************************************)
(* One call of any operation, by a user of either tenant, on every table   *)
(* the constraints admit, with a queue that may refuse the message.        *)
(***************************************************************************)
InitCalls ==
  /\ appointments \in Tables
  /\ seriesCount = 0
  /\ lastOp = NoOp
  /\ txn = [c \in Clients |-> IdleTxn]
  /\ listing = NoListing
  /\ NotifInit

NextCalls ==
  /\ lastOp = NoOp
  /\ \E t \in Tenants :
       \/ \E p \in Providers, s \in Starts, f \in BOOLEAN :
            \E d \in Durations(s) : createAppointment(t, p, s, d, f)
       \/ \E i \in ApptIds, u \in UpdateDatas : updateAppointment(t, i, u)
       \/ \E i \in ApptIds, f \in BOOLEAN : cancelAppointment(t, i, f)
       \/ \E i \in ApptIds : checkinAppointment(t, i)
       \/ \E i \in ApptIds, s \in Starts, f \in BOOLEAN :
            \E d \in Durations(s) : rescheduleAppointment(t, i, s, d, f)
       \/ \E p \in Providers, m \in SeriesRequests, f \in BOOLEAN :
            createAppointmentSeries(t, p, m, f)

SpecCalls == InitCalls /\ [][NextCalls]_vars

(***************************************************************************)
(* createAppointment run by concurrent requests, each on its own pooled    *)
(* connection: the conflict check is a SELECT that sees the committed      *)
(* rows, and INSERT with COMMIT is a later step.  Between the two steps    *)
(* other requests run.  The unique index decides at the INSERT.            *)
(***************************************************************************)
createAppointmentCheck(c, tenantId, providerId, scheduled_start, duration_minutes) ==
  LET endTime == scheduled_start + duration_minutes
      conflicts == checkAppointmentConflicts(appointments, providerId, scheduled_start, endTime)
      open == [IdleTxn EXCEPT !.tenant = tenantId, !.provider = providerId,
                              !.start = scheduled_start, !.end = endTime]
  IN
  /\ txn[c].pc = "idle"
  /\ txn' = [txn EXCEPT ![c] =
               IF conflicts # {}
                 THEN [open EXCEPT !.pc = "done", !.result = "Conflict"]
                 ELSE [open EXCEPT !.pc = "checked"]]
  /\ UNCHANGED <<appointments, seriesCount, lastOp, listing, notifVars, prefVars, workerVars,
                 cacheVars>>

createAppointmentInsert(c) ==
  LET inserted == Append(appointments,
                         Row(txn[c].tenant, txn[c].provider, txn[c].start, txn[c].end,
                             "scheduled"))
  IN
  /\ txn[c].pc = "checked"
  /\ Len(appointments) < MaxAppts
  /\ IF TableOk(inserted)
       THEN /\ appointments' = inserted
            /\ txn' = [txn EXCEPT ![c].pc = "done", ![c].result = "ok"]
       ELSE /\ txn' = [txn EXCEPT ![c].pc = "done", ![c].result = "DbError"]
            /\ UNCHANGED appointments
  /\ UNCHANGED <<seriesCount, lastOp, listing, notifVars, prefVars, workerVars, cacheVars>>

NextBooking ==
  \/ \E c \in Clients, t \in Tenants, p \in Providers, s \in Starts :
       \E d \in Durations(s) : createAppointmentCheck(c, t, p, s, d)
  \/ \E c \in Clients : createAppointmentInsert(c)

SpecBooking == Init /\ [][NextBooking]_vars

(***************************************************************************)
(* Properties of the booking operations.                                   *)
(***************************************************************************)
Overlap(s1, e1, s2, e2) == s1 < e2 /\ e1 > s2

(* The live appointments of a provider that overlap [s, e), half-open. *)
LiveOverlapping(rows, p, s, e) ==
  {i \in 1..Len(rows) :
     /\ rows[i].provider = p
     /\ Live(rows[i].status)
     /\ Overlap(rows[i].start, rows[i].end, s, e)}

(* C1: no provider has two live appointments (status neither cancelled nor
   no-show) whose [scheduled_start, scheduled_end) intervals overlap, after
   any sequence of create, series, reschedule, update, cancel and check-in
   calls. *)
NoDoubleBooking ==
  \A i, j \in 1..Len(appointments) :
    (/\ i # j
     /\ appointments[i].provider = appointments[j].provider
     /\ Live(appointments[i].status)
     /\ Live(appointments[j].status))
      => ~Overlap(appointments[i].start, appointments[i].end,
                  appointments[j].start, appointments[j].end)

(* C2: of two createAppointment calls for the same provider with overlapping
   intervals, whose check and insert steps interleave in any order, exactly
   one commits and the other fails with Conflict. *)
ExactlyOneBookingCommits ==
  \A c1, c2 \in Clients :
    (/\ c1 # c2
     /\ txn[c1].pc = "done"
     /\ txn[c2].pc = "done"
     /\ txn[c1].provider = txn[c2].provider
     /\ Overlap(txn[c1].start, txn[c1].end, txn[c2].start, txn[c2].end))
      => \/ (txn[c1].result = "ok" /\ txn[c2].result = "Conflict")
         \/ (txn[c1].result = "Conflict" /\ txn[c2].result = "ok")

(* C3: for every non-empty proposed interval the conflict check reports
   exactly the live appointments of the provider with existingStart <
   proposedEnd and existingEnd > proposedStart; an appointment that ends at
   the proposed start, or starts at the proposed end, is not reported. *)
ConflictIsHalfOpenOverlap ==
  \A p \in Providers, s \in Spans, e \in Spans :
    e > s =>
      /\ checkAppointmentConflicts(appointments, p, s, e) = LiveOverlapping(appointments, p, s, e)
      /\ \A i \in checkAppointmentConflicts(appointments, p, s, e) :
           appointments[i].end # s /\ appointments[i].start # e

(* C3 witness: an appointment was booked right after a live appointment of
   the same provider that ends at its start. *)
BackToBackBooked ==
  /\ lastOp.op = "createAppointment"
  /\ lastOp.result = "ok"
  /\ \E i \in 1..Len(appointments) :
       /\ appointments[i].provider = lastOp.provider
       /\ Live(appointments[i].status)
       /\ appointments[i].end = lastOp.start

(* C4: a createAppointment whose proposed interval overlaps a live
   appointment of the provider fails with Conflict; the Conflict carries the
   id of a live appointment of that provider overlapping the proposed
   interval, no row is inserted and no notification message is published. *)
ConflictRejectsCleanly ==
  [][lastOp'.op = "createAppointment" =>
       LET colliding == LiveOverlapping(appointments, lastOp'.provider,
                                        lastOp'.start, lastOp'.end)
       IN /\ colliding # {} => lastOp'.result = "Conflict"
          /\ lastOp'.result = "Conflict" =>
               /\ lastOp'.conflictId \in colliding
               /\ appointments' = appointments
               /\ seriesCount' = seriesCount
               /\ lastOp'.published = 0]_vars

(* C4 witness: a createAppointment was rejected with Conflict on a table
   that also holds an appointment that does not collide with it. *)
ConflictReported ==
  /\ lastOp.op = "createAppointment"
  /\ lastOp.result = "Conflict"
  /\ lastOp.conflictId \in 1..Len(appointments)
  /\ \E i \in 1..Len(appointments) :
       i \notin LiveOverlapping(appointments, lastOp.provider, lastOp.start, lastOp.end)

(* C5: rescheduling a live appointment to an interval that overlaps its own
   current interval and no other live appointment of the provider
   succeeds: the move is committed, whatever becomes of its notification
   message. *)
RescheduleExcludesSelf ==
  [][(/\ lastOp'.op = "rescheduleAppointment"
      /\ lastOp'.id \in 1..Len(appointments)
      /\ appointments[lastOp'.id].tenant = lastOp'.tenant
      /\ Live(appointments[lastOp'.id].status)
      /\ Overlap(appointments[lastOp'.id].start, appointments[lastOp'.id].end,
                 lastOp'.start, lastOp'.end)
      /\ LiveOverlapping(appointments, appointments[lastOp'.id].provider,
                         lastOp'.start, lastOp'.end) \ {lastOp'.id} = {})
       => lastOp'.result \in {"ok", "QueueError"}]_vars

(* C6: a createAppointmentSeries request one of whose appointments overlaps
   an existing live appointment of the provider fails, and persists no
   appointment row and no appointment_series row. *)
SeriesAllOrNothing ==
  [][(/\ lastOp'.op = "createAppointmentSeries"
      /\ \E k \in 1..Len(lastOp'.members) :
           LiveOverlapping(appointments, lastOp'.provider, lastOp'.members[k].start,
                           lastOp'.members[k].start + lastOp'.members[k].duration) # {})
       => /\ lastOp'.result # "ok"
          /\ appointments' = appointments
          /\ seriesCount' = seriesCount]_vars

(* The allowed-transition table of the appointment status. *)
AllowedTransitions ==
  {<<"scheduled", "confirmed">>, <<"confirmed", "arrived">>, <<"arrived", "in-progress">>,
   <<"in-progress", "completed">>, <<"scheduled", "cancelled">>, <<"confirmed", "cancelled">>,
   <<"scheduled", "no-show">>, <<"confirmed", "no-show">>, <<"arrived", "no-show">>}

(* C7: every change of an appointment's status by updateAppointment,
   cancelAppointment or checkinAppointment is a pair of the allowed-transition
   table; for any other pair the status is left unchanged. *)
StatusChangesAllowed ==
  [][\A i \in 1..Len(appointments) :
       appointments'[i].status # appointments[i].status
         => <<appointments[i].status, appointments'[i].status>> \in AllowedTransitions]_vars

(* C8: once an appointment is completed, cancelled or no-show, no later
   operation changes its status. *)
TerminalStatusStays ==
  [][\A i \in 1..Len(appointments) :
       appointments[i].status \in {"completed", "cancelled", "no-show"}
         => appointments'[i].status = appointments[i].status]_vars

(***************************************************************************)
(* The notification pipeline.                                              *)
(*                                                                         *)
(* Of the timestamps of a row the model keeps what the queries ask:        *)
(*   due    : scheduled_send_time <= NOW() + INTERVAL '5 minutes'          *)
(*   cooled : updated_at < NOW() - INTERVAL '30 minutes'                   *)
(* Every UPDATE of a row sets updated_at (update_notifications_updated_at) *)
(* and so clears cooled; the passing of time sets due and cooled.          *)
(***************************************************************************)
MaxRetryCount == 3       \* chk_retry_count, and the budget of processNotification
RequeueLimit == 3        \* consumeFromQueue requeues while the retry header + 1 is below it
XRetryCount == 0         \* the x-retry-count header of a message: no publisher sets it

NotificationStatuses == {"pending", "queued", "delivered", "failed"}

(* The notifications table without chk_retry_count: every UPDATE of        *)
(* retry_count is accepted.                                                *)
chk_retry_countDropped(retry_count) == retry_count = retry_count

(* chk_retry_count: CHECK (retry_count >= 0 AND retry_count <= 3); an      *)
(* UPDATE that would break it raises an error and changes nothing.         *)
chk_retry_count(retry_count) == retry_count >= 0 /\ retry_count <= MaxRetryCount

(***************************************************************************)
(* loadNotificationTemplates: the notification types that have a template. *)
(* notification_type is a VARCHAR(50) that no constraint restricts, so a   *)
(* row may hold a type without one.                                        *)
(***************************************************************************)
loadNotificationTemplates ==
  {"appointment_confirmation", "appointment_reminder", "appointment_cancelled",
   "appointment_rescheduled", "medication_reminder", "medication_refill_reminder",
   "medication_discontinued", "medication_adherence_low"}

\* The notification types the requests of the model carry.
NotificationTypes == {"appointment_reminder", "survey"}

(***************************************************************************)
(* NotificationService.createNotification: the row is inserted pending     *)
(* with retry_count 0; a notification to send at once ("now") is published *)
(* and then set to queued.  "soon" is a send time inside the scheduler's   *)
(* lookahead, "later" one beyond it.                                       *)
(***************************************************************************)
createNotification(n, when, notification_type, publishFails) ==
  LET row == [status |-> "pending", retry_count |-> 0, due |-> (when # "later"),
              cooled |-> FALSE, notification_type |-> notification_type,
              delivery_details |-> "{}"]
  IN
  /\ notifications[n].status = "none"
  /\ IF when = "now" /\ ~publishFails
       THEN /\ notifications' = [notifications EXCEPT ![n] = [row EXCEPT !.status = "queued"]]
            /\ queue' = [queue EXCEPT ![n] = @ + 1]
       ELSE /\ notifications' = [notifications EXCEPT ![n] = row]
            /\ UNCHANGED queue
  /\ UNCHANGED <<sends, successes, batch, retrySel, dispatch, apptVars, prefVars, workerVars,
                 cacheVars>>

(***************************************************************************)
(* The scheduler's handler: getPendingNotifications selects the pending    *)
(* rows that are due, then queueNotification runs for each selected row.   *)
(***************************************************************************)
getPendingNotifications ==
  {n \in DOMAIN notifications : notifications[n].status = "pending" /\ notifications[n].due}

schedulerSelect ==
  /\ batch = {}
  /\ getPendingNotifications # {}
  /\ batch' = getPendingNotifications
  /\ UNCHANGED <<notifications, queue, sends, successes, retrySel, dispatch, apptVars,
                 prefVars, workerVars, cacheVars>>

(***************************************************************************)
(* queueNotification: UPDATE to queued by id and publish, in one           *)
(* transaction; when the publish fails the transaction is rolled back and  *)
(* the row is set to failed, with the error in delivery_details.           *)
(***************************************************************************)
(* queueNotification without the UPDATE of its catch block: a failed       *)
(* publish only rolls the transaction back.                                *)
queueNotificationRollbackOnly(n, publishFails) ==
  /\ n \in batch
  /\ ~publishFails => queue[n] < MaxQueued
  /\ IF ~publishFails
       THEN /\ notifications' = [notifications EXCEPT ![n].status = "queued", ![n].cooled = FALSE]
            /\ queue' = [queue EXCEPT ![n] = @ + 1]
       ELSE UNCHANGED <<notifications, queue>>
  /\ batch' = batch \ {n}
  /\ UNCHANGED <<sends, successes, retrySel, dispatch, apptVars, prefVars, workerVars, cacheVars>>

queueNotification(n, publishFails) ==
  /\ n \in batch
  /\ ~publishFails => queue[n] < MaxQueued
  /\ IF ~publishFails
       THEN /\ notifications' = [notifications EXCEPT ![n].status = "queued", ![n].cooled = FALSE]
            /\ queue' = [queue EXCEPT ![n] = @ + 1]
       ELSE /\ notifications' = [notifications EXCEPT ![n].status = "failed",
                                                     ![n].delivery_details = "error",
                                                     ![n].cooled = FALSE]
            /\ UNCHANGED queue
  /\ batch' = batch \ {n}
  /\ UNCHANGED <<sends, successes, retrySel, dispatch, apptVars, prefVars, workerVars, cacheVars>>

(***************************************************************************)
(* retryFailedNotifications: selects the failed rows with retry_count < 3  *)
(* that have cooled down, then resets each selected row by id; an UPDATE   *)
(* that chk_retry_count refuses is logged and skipped.                     *)
(***************************************************************************)
retryEligible ==
  {n \in NotifIds :
     /\ notifications[n].status = "failed"
     /\ notifications[n].retry_count < MaxRetryCount
     /\ notifications[n].cooled}

retrySelect ==
  /\ retrySel = {}
  /\ retryEligible # {}
  /\ retrySel' = retryEligible
  /\ UNCHANGED <<notifications, queue, sends, successes, batch, dispatch, apptVars, prefVars,
                 workerVars, cacheVars>>

retryUpdate(n) ==
  /\ n \in retrySel
  /\ retrySel' = retrySel \ {n}
  /\ notifications' =
       IF chk_retry_count(notifications[n].retry_count + 1)
         THEN [notifications EXCEPT ![n].status = "pending",
                                    ![n].retry_count = notifications[n].retry_count + 1,
                                    ![n].due = TRUE, ![n].cooled = FALSE]
         ELSE notifications
  /\ UNCHANGED <<queue, sends, successes, batch, dispatch, apptVars, prefVars, workerVars,
                 cacheVars>>

(***************************************************************************)
(* consumeFromQueue: a message whose handler throws is requeued while its  *)
(* x-retry-count header + 1 is below 3, else dead-lettered.                *)
(***************************************************************************)
RequeueOnError(xRetryCount) == (xRetryCount + 1) < RequeueLimit

AfterHandler(n, threw) ==
  IF threw /\ RequeueOnError(XRetryCount) THEN queue ELSE [queue EXCEPT ![n] = @ - 1]

(* processNotification without its check for a row already delivered.      *)
alreadyDeliveredIgnored(notification) == notification.status = "none"

(* processNotification: if (notification.delivery_status === 'delivered')  *)
alreadyDelivered(notification) == notification.status = "delivered"

(* The quiet-hours UPDATE counting the deferral as an attempt.             *)
quietHoursUpdateCountsAttempt(notification, d) ==
  [notification EXCEPT !.status = "pending", !.due = d, !.cooled = FALSE,
                       !.retry_count = IF @ < MaxRetryCount THEN @ + 1 ELSE @]

(* processNotification, quiet hours: UPDATE notifications SET              *)
(* scheduled_send_time = scheduled_send_time + INTERVAL '2 hours',         *)
(* delivery_status = 'pending'.  d is whether the later send time is still *)
(* inside the scheduler's lookahead.                                       *)
quietHoursUpdate(notification, d) ==
  [notification EXCEPT !.status = "pending", !.due = d, !.cooled = FALSE]

(***************************************************************************)
(* One delivery of a message of notification n to the consumer:            *)
(* processNotification as consumeFromQueue runs it.  quiet is              *)
(* isQuietHours, hasChannel is selectChannel finding a channel, sendOk the *)
(* transport's outcome.  renderNotificationMessage throws for a type       *)
(* without a template, outside the try block of the transport: the         *)
(* transaction is rolled back and the error goes to the consumer.          *)
(***************************************************************************)
processNotification(n, quiet, hasChannel, sendOk) ==
  LET row == notifications[n]
      newRetryCount == row.retry_count + 1
      hasTemplate == row.notification_type \in loadNotificationTemplates
      sent == ~alreadyDelivered(row) /\ ~quiet /\ hasChannel /\ hasTemplate
      Done(outcome) == dispatch' = [id |-> n, outcome |-> outcome]
  IN
  /\ queue[n] > 0
  /\ sent => sends[n] < MaxSends
  /\ sends' = IF sent THEN [sends EXCEPT ![n] = @ + 1] ELSE sends
  /\ successes' = IF sent /\ sendOk THEN [successes EXCEPT ![n] = @ + 1] ELSE successes
  /\ IF alreadyDelivered(row)
       THEN /\ UNCHANGED notifications
            /\ queue' = AfterHandler(n, FALSE)
            /\ Done("skipped")
       ELSE IF quiet
         THEN /\ \E d \in {FALSE, row.due} :
                   notifications' = [notifications EXCEPT ![n] = quietHoursUpdate(row, d)]
              /\ queue' = AfterHandler(n, FALSE)
              /\ Done("deferred")
         ELSE IF ~hasChannel
           THEN /\ notifications' = [notifications EXCEPT
                                       ![n].status = "failed", ![n].cooled = FALSE]
                /\ queue' = AfterHandler(n, FALSE)
                /\ Done("nochannel")
           ELSE IF ~hasTemplate
             THEN /\ UNCHANGED notifications
                  /\ queue' = AfterHandler(n, TRUE)
                  /\ Done("norender")
           ELSE IF sendOk
             THEN /\ notifications' = [notifications EXCEPT
                                         ![n].status = "delivered",
                                         ![n].delivery_details = "result",
                                         ![n].cooled = FALSE]
                  /\ queue' = AfterHandler(n, FALSE)
                  /\ Done("delivered")
             ELSE /\ IF ~chk_retry_count(newRetryCount)
                       THEN UNCHANGED notifications /\ Done("refused")
                       ELSE IF newRetryCount >= 3
                         THEN /\ notifications' =
                                   [notifications EXCEPT
                                      ![n].status = "failed", ![n].retry_count = newRetryCount,
                                      ![n].delivery_details = "error",
                                      ![n].cooled = FALSE]
                              /\ Done("exhausted")
                         ELSE /\ notifications' =
                                   [notifications EXCEPT
                                      ![n].status = "pending", ![n].retry_count = newRetryCount,
                                      ![n].due = FALSE, ![n].cooled = FALSE]
                              /\ Done("retry")
                  /\ queue' = AfterHandler(n, TRUE)
  /\ UNCHANGED <<batch, retrySel, apptVars, prefVars, cacheVars>>

(***************************************************************************)
(* The errors a channel transport may throw: the error codes that          *)
(* shouldRetryNotification names, an error with an HTTP status and one     *)
(* with neither (statusCode 0: the error has no statusCode).               *)
(***************************************************************************)
nonRetryableErrors ==
  {"INVALID_PHONE_NUMBER", "INVALID_EMAIL", "PATIENT_OPTED_OUT", "INVALID_NOTIFICATION_TYPE"}

retryableAWSErrors == {"Throttling", "ServiceUnavailable", "RequestTimeout"}

TransportErrors ==
  {[code |-> c, statusCode |-> 0] : c \in nonRetryableErrors \cup retryableAWSErrors}
    \cup {[code |-> "none", statusCode |-> st] : st \in {0, 400, 500}}

\* new Error(`No template found ...`): no code, no statusCode.
TemplateError == [code |-> "none", statusCode |-> 0]

shouldRetryNotification(message, error) ==
  LET maxRetries == 3
      currentRetry == message.retryCount
  IN IF currentRetry >= maxRetries THEN FALSE
     ELSE IF error.code \in nonRetryableErrors THEN FALSE
     ELSE IF error.code \in retryableAWSErrors THEN TRUE
     ELSE IF error.statusCode # 0 /\ error.statusCode >= 400 /\ error.statusCode < 500 THEN FALSE
     ELSE TRUE

(***************************************************************************)
(* processNotificationMessage, the callback of the consumer: it runs       *)
(* processNotification, and on an error computes shouldRetryNotification,  *)
(* logs the answer and rethrows.  message.retryCount is the retry_count    *)
(* the row had when the message was published; error is what the transport *)
(* throws if it is invoked and fails.                                      *)
(***************************************************************************)
processNotificationMessage(n, message, quiet, hasChannel, sendOk, error) ==
  /\ processNotification(n, quiet, hasChannel, sendOk)
  /\ workerLog' =
       IF dispatch'.outcome \in {"retry", "exhausted", "refused"}
         THEN [id |-> n, threw |-> TRUE, code |-> error.code, statusCode |-> error.statusCode,
               shouldRetry |-> shouldRetryNotification(message, error)]
       ELSE IF dispatch'.outcome = "norender"
         THEN [id |-> n, threw |-> TRUE, code |-> TemplateError.code,
               statusCode |-> TemplateError.statusCode,
               shouldRetry |-> shouldRetryNotification(message, TemplateError)]
       ELSE [NoWorkerLog EXCEPT !.id = n]
  /\ UNCHANGED <<pendingNotifications, messages>>

(* Time passes: a send time comes inside the lookahead, a row cools down. *)
BecomesDue(n) ==
  /\ notifications[n].status # "none"
  /\ ~notifications[n].due
  /\ notifications' = [notifications EXCEPT ![n].due = TRUE]
  /\ UNCHANGED <<queue, sends, successes, batch, retrySel, dispatch, apptVars, prefVars,
                 workerVars, cacheVars>>

CoolsDown(n) ==
  /\ notifications[n].status # "none"
  /\ ~notifications[n].cooled
  /\ notifications' = [notifications EXCEPT ![n].cooled = TRUE]
  /\ UNCHANGED <<queue, sends, successes, batch, retrySel, dispatch, apptVars, prefVars,
                 workerVars, cacheVars>>

NextNotif ==
  \/ \E n \in NotifIds, when \in {"now", "soon", "later"}, t \in NotificationTypes,
          publishFails \in BOOLEAN :
       createNotification(n, when, t, publishFails)
  \/ \E n \in NotifIds, rc \in 0..MaxRetryCount, quiet \in BOOLEAN, hasChannel \in BOOLEAN :
       \/ processNotificationMessage(n, [retryCount |-> rc], quiet, hasChannel, TRUE, TemplateError)
       \/ \E error \in TransportErrors :
            processNotificationMessage(n, [retryCount |-> rc], quiet, hasChannel, FALSE, error)
  \/ schedulerSelect
  \/ \E n \in NotifIds, publishFails \in BOOLEAN : queueNotification(n, publishFails)
  \/ retrySelect
  \/ \E n \in NotifIds : retryUpdate(n)
  \/ \E n \in NotifIds : BecomesDue(n)
  \/ \E n \in NotifIds : CoolsDown(n)

SpecNotif == Init /\ [][NextNotif]_vars

(***************************************************************************)
(* Properties of the notification pipeline.                                *)
(***************************************************************************)

(* C9: for every notification the channel transport is invoked at most 3
   times, in any execution of scheduler runs, retry sweeps, queue
   redeliveries and dispatches. *)
TransportAtMostThreeTimes == \A n \in NotifIds : sends[n] <= 3

(* The changes of delivery_status the lifecycle allows. *)
AllowedStatusChanges ==
  {<<"pending", "queued">>, <<"queued", "delivered">>, <<"queued", "failed">>,
   <<"queued", "pending">>, <<"failed", "pending">>}

(* C10: every change of a notification's delivery_status by the scheduler,
   the retry sweep or the dispatcher is pending->queued, queued->delivered,
   queued->failed, queued->pending or failed->pending with retry_count < 3;
   a notification that is delivered, or failed with retry_count 3, never
   changes status again. *)
NotificationLifecycle ==
  [][\A n \in NotifIds :
       /\ (/\ notifications[n].status \in NotificationStatuses
           /\ notifications'[n].status # notifications[n].status)
            => /\ <<notifications[n].status, notifications'[n].status>> \in AllowedStatusChanges
               /\ notifications[n].status = "failed" => notifications[n].retry_count < 3
       /\ (\/ notifications[n].status = "delivered"
           \/ (notifications[n].status = "failed" /\ notifications[n].retry_count >= 3))
            => notifications'[n].status = notifications[n].status]_vars

(* C11: in every reachable state each notification has 0 <= retry_count
   <= 3: no update of retry_count by the dispatcher's failure path or by
   the retry sweep leaves a larger value in the table. *)
RetryCountWithinBudget ==
  \A n \in NotifIds : notifications[n].retry_count >= 0 /\ notifications[n].retry_count <= 3

(* A transport failure on a row that already stands at retry_count 3: the
   UPDATE to 4 was refused and the row keeps 3. *)
FourthFailureRefused ==
  /\ dispatch.outcome = "refused"
  /\ notifications[dispatch.id].retry_count = 3

(* C12: processNotification on a notification whose delivery_status is
   delivered invokes no channel transport and leaves every field of the
   record unchanged, at every repetition. *)
DeliveredIsNotSentAgain ==
  [][\A n \in NotifIds :
       (/\ notifications[n].status = "delivered"
        /\ \E quiet \in BOOLEAN, hasChannel \in BOOLEAN, sendOk \in BOOLEAN :
             processNotification(n, quiet, hasChannel, sendOk))
         => (sends'[n] = sends[n] /\ notifications'[n] = notifications[n])]_vars

(* A message of an already delivered notification has been dispatched. *)
DeliveredDispatchedAgain ==
  /\ dispatch.outcome = "skipped"
  /\ notifications[dispatch.id].status = "delivered"
  /\ sends[dispatch.id] >= 1

(* C13 as stated: whenever processNotification runs while the recipient is
   in quiet hours it invokes no channel transport, leaves retry_count
   unchanged, sets delivery_status to pending and moves scheduled_send_time
   later (a send time that was beyond the lookahead stays beyond it). *)
QuietHoursDefers ==
  [][\A n \in NotifIds :
       (\E hasChannel \in BOOLEAN, sendOk \in BOOLEAN : processNotification(n, TRUE, hasChannel, sendOk))
         => /\ sends'[n] = sends[n]
            /\ notifications'[n].retry_count = notifications[n].retry_count
            /\ notifications'[n].status = "pending"
            /\ notifications'[n].due => notifications[n].due]_vars

(* C13 amended: the same for a notification that is not yet delivered; a
   delivered one is skipped before the quiet-hours check. *)
QuietHoursDefersUndelivered ==
  [][\A n \in NotifIds :
       (/\ notifications[n].status # "delivered"
        /\ \E hasChannel \in BOOLEAN, sendOk \in BOOLEAN : processNotification(n, TRUE, hasChannel, sendOk))
         => /\ sends'[n] = sends[n]
            /\ notifications'[n].retry_count = notifications[n].retry_count
            /\ notifications'[n].status = "pending"
            /\ notifications'[n].due => notifications[n].due]_vars

(* A dispatch was deferred by quiet hours after an earlier failed attempt. *)
DeferredAfterFailure ==
  /\ dispatch.outcome = "deferred"
  /\ notifications[dispatch.id].status = "pending"
  /\ notifications[dispatch.id].retry_count = 1

(* C14: when the channel transport fails for a notification with
   retry_count = n, the dispatcher sets retry_count to n+1 and, if n+1 < 3,
   sets status pending with a send time 30 minutes ahead (beyond the
   scheduler's lookahead), otherwise sets status failed. *)
TransportFailureCounts ==
  [][\A n \in NotifIds :
       (/\ notifications[n].status # "delivered"
        /\ notifications[n].notification_type \in loadNotificationTemplates
        /\ processNotification(n, FALSE, TRUE, FALSE))
         => /\ notifications'[n].retry_count = notifications[n].retry_count + 1
            /\ IF notifications[n].retry_count + 1 < 3
                 THEN notifications'[n].status = "pending" /\ ~notifications'[n].due
                 ELSE notifications'[n].status = "failed"]_vars

(***************************************************************************)
(* Properties of single calls: notifications, queue failures, tenants.     *)
(***************************************************************************)

(* C15: a successful createAppointment creates exactly four notification
   records for the new appointment (one appointment_confirmation for the
   current time, three appointment_reminder for T-72h, T-24h and T-2h):
   the call adds four rows to the notifications table. *)
FourNotificationRecords ==
  [][(lastOp'.op = "createAppointment" /\ lastOp'.result = "ok")
       => Cardinality({n \in NotifIds : /\ notifications[n].status = "none"
                                        /\ notifications'[n].status # "none"}) = 4]_vars

(* C16: if publishing a notification to the queue fails during
   createAppointment, cancelAppointment, rescheduleAppointment or
   createAppointmentSeries, the appointment mutation made by that call
   stays committed. *)
PublishFailureKeepsMutation ==
  [][lastOp'.result = "QueueError" =>
       /\ lastOp'.op = "createAppointment" =>
            appointments' = Append(appointments,
                                   Row(lastOp'.tenant, lastOp'.provider, lastOp'.start,
                                       lastOp'.end, "scheduled"))
       /\ lastOp'.op = "cancelAppointment" =>
            appointments' = [appointments EXCEPT ![lastOp'.id].status = "cancelled"]
       /\ lastOp'.op = "rescheduleAppointment" =>
            appointments' = [appointments EXCEPT ![lastOp'.id].start = lastOp'.start,
                                                 ![lastOp'.id].end = lastOp'.end,
                                                 ![lastOp'.id].duration =
                                                   lastOp'.end - lastOp'.start]
       /\ lastOp'.op = "createAppointmentSeries" =>
            /\ Len(appointments') = Len(appointments) + Len(lastOp'.members)
            /\ seriesCount' = seriesCount + 1]_vars

(* C18: the outcome of an appointment operation invoked under one tenant
   neither depends on nor reveals the appointments of another tenant:
   update, cancel, reschedule and check-in of an appointment id owned by
   another tenant report NotFound and change nothing, and createAppointment
   is never rejected with a Conflict that names an appointment of another
   tenant. *)
TenantIsolation ==
  [][/\ (/\ lastOp'.op \in {"updateAppointment", "cancelAppointment",
                            "rescheduleAppointment", "checkinAppointment"}
         /\ lastOp'.id \in 1..Len(appointments)
         /\ appointments[lastOp'.id].tenant # lastOp'.tenant)
          => (lastOp'.result = "NotFound" /\ appointments' = appointments)
     /\ (lastOp'.op = "createAppointment" /\ lastOp'.result = "Conflict")
          => appointments[lastOp'.conflictId].tenant = lastOp'.tenant]_vars

(***************************************************************************)
(* The slot finder.  The times of the model are the instants of one        *)
(* calendar day: the day loop of calculateAvailableSlots runs once when    *)
(* startDate <= endDate and not at all otherwise, and every rule of        *)
(* provider_availability applies to that day.  The clock stands before     *)
(* time 0, so every slot lies in the future.                               *)
(***************************************************************************)
MaxRules == 1            \* rows of provider_availability

(* providers.tenant_id *)
ProviderTenant(p) == IF p = "p1" THEN "tA" ELSE "tB"

(* provider_availability, with chk_availability_times and chk_slot_duration *)
AvailabilityRules ==
  {r \in [provider_id : Providers, start_time : Spans, end_time : Spans,
          slot_duration : 1..MaxTime] : r.end_time > r.start_time}

AvailabilityTables == {a \in SUBSET AvailabilityRules : Cardinality(a) <= MaxRules}

Filters == [providerId : Providers \cup {"any"}, startDate : Times, endDate : Times]

(* calculateAvailableSlots: for each rule the slots of slot_duration from  *)
(* start_time while slotStart < dayEnd; a slot is kept unless              *)
(* slotStart < booked.end && slotEnd > booked.start for a booked           *)
(* appointment of the rule's provider.                                     *)
calculateAvailableSlots(availability, bookedAppointments, startDate, endDate) ==
  IF startDate > endDate
    THEN {}
    ELSE {slot \in UNION {{[provider_id |-> avail.provider_id, start_time |-> slotStart,
                            end_time |-> slotStart + avail.slot_duration,
                            duration_minutes |-> avail.slot_duration] :
                             slotStart \in {s \in avail.start_time..(avail.end_time - 1) :
                                              (s - avail.start_time) % avail.slot_duration = 0}} :
                          avail \in availability} :
            ~\E booked \in bookedAppointments :
                /\ booked.provider = slot.provider_id
                /\ slot.start_time < booked.end
                /\ slot.end_time > booked.start}

(* findAvailableSlots: the rules of the tenant's providers (and of the     *)
(* provider asked for), the tenant's live appointments with                *)
(* scheduled_start >= startDate AND scheduled_start <= endDate, and        *)
(* calculateAvailableSlots of the two.                                     *)
findAvailableSlots(rows, availabilityTable, tenantId, filters) ==
  LET availability ==
        {pa \in availabilityTable :
           /\ ProviderTenant(pa.provider_id) = tenantId
           /\ filters.providerId # "any" => pa.provider_id = filters.providerId}
      bookedAppointments ==
        {rows[i] : i \in {j \in 1..Len(rows) :
                            /\ rows[j].tenant = tenantId
                            /\ Live(rows[j].status)
                            /\ rows[j].start >= filters.startDate
                            /\ rows[j].start <= filters.endDate
                            /\ filters.providerId # "any" =>
                                 rows[j].provider = filters.providerId}}
  IN calculateAvailableSlots(availability, bookedAppointments,
                             filters.startDate, filters.endDate)

(* A listing request. *)
ListSlots(tenantId, filters, availabilityTable) ==
  /\ listing = NoListing
  /\ lastOp = NoOp
  /\ listing' = [tenant |-> tenantId, availability |-> availabilityTable,
                 slots |-> findAvailableSlots(appointments, availabilityTable, tenantId, filters)]
  /\ UNCHANGED <<appointments, seriesCount, lastOp, txn, notifVars, prefVars, workerVars,
                 cacheVars>>

(* The caller books one of the slots it was given, right after the listing. *)
BookListedSlot(slot) ==
  /\ listing # NoListing
  /\ lastOp = NoOp
  /\ slot \in listing.slots
  /\ createAppointment(listing.tenant, slot.provider_id, slot.start_time,
                       slot.duration_minutes, FALSE)

(* The tables of scheduled and cancelled appointments. *)
SlotTables ==
  {t \in Tables : \A i \in 1..Len(t) : t[i].status \in {"scheduled", "cancelled"}}

InitSlots ==
  /\ appointments \in SlotTables
  /\ seriesCount = 0
  /\ lastOp = NoOp
  /\ txn = [c \in Clients |-> IdleTxn]
  /\ listing = NoListing
  /\ NotifInit

NextSlots ==
  \/ \E t \in Tenants, f \in Filters, a \in AvailabilityTables : ListSlots(t, f, a)
  \/ \E slot \in listing.slots : BookListedSlot(slot)

SpecSlots == InitSlots /\ [][NextSlots]_vars

(* C17: every slot returned by findAvailableSlots is immediately bookable:
   createAppointment for that slot's provider, start and duration, right
   after the listing and with no change in between, does not fail with a
   Conflict. *)
ListedSlotsAreBookable ==
  (listing # NoListing /\ lastOp.op = "createAppointment") => lastOp.result # "Conflict"

(***************************************************************************)
(* The recipient's preferences: isQuietHours and selectChannel.            *)
(* A field of preferences or contactInfo that is not set is left out of    *)
(* the record; a contact field may also hold the empty string.             *)
(***************************************************************************)
Hours == 0..23

HourSettings ==
  {<<>>}
    \cup {[quiet_hours_start |-> s] : s \in Hours}
    \cup {[quiet_hours_end |-> e] : e \in Hours}
    \cup {[quiet_hours_start |-> s, quiet_hours_end |-> e] : s \in Hours, e \in Hours}

(* preferences.quiet_hours_start || 22 *)
quietStart(preferences) ==
  IF "quiet_hours_start" \in DOMAIN preferences /\ preferences.quiet_hours_start # 0
    THEN preferences.quiet_hours_start ELSE 22

(* preferences.quiet_hours_end || 8 *)
quietEnd(preferences) ==
  IF "quiet_hours_end" \in DOMAIN preferences /\ preferences.quiet_hours_end # 0
    THEN preferences.quiet_hours_end ELSE 8

(* isQuietHours, for the hour currentHour of the clock. *)
isQuietHours(quiet_hours_enabled, preferences, currentHour) ==
  IF ~quiet_hours_enabled
    THEN FALSE
    ELSE IF quietStart(preferences) < quietEnd(preferences)
      THEN currentHour >= quietStart(preferences) \/ currentHour < quietEnd(preferences)
      ELSE currentHour >= quietStart(preferences) /\ currentHour < quietEnd(preferences)

CallIsQuietHours(quiet_hours_enabled, preferences, currentHour) ==
  /\ ~quietCall.called
  /\ ~channelCall.called
  /\ quietCall' = [called |-> TRUE, quiet_hours_enabled |-> quiet_hours_enabled,
                   preferences |-> preferences, currentHour |-> currentHour,
                   result |-> isQuietHours(quiet_hours_enabled, preferences, currentHour)]
  /\ UNCHANGED <<channelCall, apptVars, notifVars, workerVars, cacheVars>>

(* A contact field: not set, the empty string, or a value. *)
ContactValues == {"undefined", "", "value"}

ContactInfos == [phone : ContactValues, email : ContactValues, device_token : ContactValues]

(* preferred_channel: not set, one of the three channels, or another word. *)
PreferredChannels == {"undefined", "sms", "email", "push", "fax"}

(* JavaScript truthiness of a contact field. *)
Truthy(v) == v \notin {"undefined", ""}

(* selectChannel falling back in the order email, sms, push. *)
selectChannelEmailFirst(preferred_channel, contactInfo) ==
  LET preferredChannel == IF preferred_channel = "undefined" THEN "sms" ELSE preferred_channel
  IN IF preferredChannel = "sms" /\ Truthy(contactInfo.phone) THEN "sms"
     ELSE IF preferredChannel = "email" /\ Truthy(contactInfo.email) THEN "email"
     ELSE IF preferredChannel = "push" /\ Truthy(contactInfo.device_token) THEN "push"
     ELSE IF Truthy(contactInfo.email) THEN "email"
     ELSE IF Truthy(contactInfo.phone) THEN "sms"
     ELSE IF Truthy(contactInfo.device_token) THEN "push"
     ELSE "null"

(* selectChannel *)
selectChannel(preferred_channel, contactInfo) ==
  LET preferredChannel == IF preferred_channel = "undefined" THEN "sms" ELSE preferred_channel
  IN IF preferredChannel = "sms" /\ Truthy(contactInfo.phone) THEN "sms"
     ELSE IF preferredChannel = "email" /\ Truthy(contactInfo.email) THEN "email"
     ELSE IF preferredChannel = "push" /\ Truthy(contactInfo.device_token) THEN "push"
     ELSE IF Truthy(contactInfo.phone) THEN "sms"
     ELSE IF Truthy(contactInfo.email) THEN "email"
     ELSE IF Truthy(contactInfo.device_token) THEN "push"
     ELSE "null"

CallSelectChannel(preferred_channel, contactInfo) ==
  /\ ~quietCall.called
  /\ ~channelCall.called
  /\ channelCall' = [called |-> TRUE, preferred_channel |-> preferred_channel,
                     contactInfo |-> contactInfo,
                     result |-> selectChannel(preferred_channel, contactInfo)]
  /\ UNCHANGED <<quietCall, apptVars, notifVars, workerVars, cacheVars>>

(* One call of either function, on every argument. *)
NextPrefs ==
  \/ /\ ~quietCall.called /\ ~channelCall.called
     /\ \E e \in BOOLEAN, p \in HourSettings, h \in Hours : CallIsQuietHours(e, p, h)
  \/ /\ ~quietCall.called /\ ~channelCall.called
     /\ \E p \in PreferredChannels, c \in ContactInfos : CallSelectChannel(p, c)

SpecPrefs == Init /\ [][NextPrefs]_vars

(* The hours of the window from start to end; a window with start > end
   wraps past midnight. *)
InWindow(start, end, hour) ==
  IF start <= end THEN hour >= start /\ hour < end
                  ELSE hour >= start \/ hour < end

(* C19: for all start, end and current hours in 0..23 with quiet hours
   enabled, isQuietHours is true exactly when the current hour lies in the
   window from start to end, where a window with start > end wraps past
   midnight (22 to 8 contains 23 and 3 but not 12; 8 to 22 contains 12 but
   not 23). *)
QuietHoursMatchWindow ==
  (/\ quietCall.called
   /\ quietCall.quiet_hours_enabled
   /\ DOMAIN quietCall.preferences = {"quiet_hours_start", "quiet_hours_end"})
    => quietCall.result = InWindow(quietCall.preferences.quiet_hours_start,
                                   quietCall.preferences.quiet_hours_end,
                                   quietCall.currentHour)

(* The contact field of a channel. *)
ContactField(channel, contactInfo) ==
  IF channel = "sms" THEN contactInfo.phone
  ELSE IF channel = "email" THEN contactInfo.email
  ELSE contactInfo.device_token

(* C20: selectChannel returns the recipient's preferred_channel when its
   contact field (phone for sms, email for email, device_token for push) is
   present, otherwise the first of sms, email, push whose contact field is
   present, and null exactly when no contact field is present; a returned
   channel always has its contact field present. *)
ChannelFollowsPreference ==
  channelCall.called =>
    LET c == channelCall.contactInfo
        preferred == channelCall.preferred_channel
        available == {ch \in {"sms", "email", "push"} : Truthy(ContactField(ch, c))}
    IN /\ (preferred \in available) => channelCall.result = preferred
       /\ (preferred \notin available /\ "sms" \in available) => channelCall.result = "sms"
       /\ (preferred \notin available /\ available = {"email", "push"}) =>
            channelCall.result = "email"
       /\ (preferred \notin available /\ available = {"email"}) => channelCall.result = "email"
       /\ (preferred \notin available /\ available = {"push"}) => channelCall.result = "push"
       /\ (channelCall.result = "null") <=> (available = {})
       /\ channelCall.result # "null" => channelCall.result \in available

(* The preferred channel has no contact field and sms has none either: the
   call fell back to email. *)
FellBackToEmail ==
  /\ channelCall.called
  /\ channelCall.preferred_channel = "push"
  /\ ~Truthy(channelCall.contactInfo.device_token)
  /\ ~Truthy(channelCall.contactInfo.phone)
  /\ Truthy(channelCall.contactInfo.email)
  /\ channelCall.result = "email"

(***************************************************************************)
(* One run of the scheduler's handler on every notifications table of up   *)
(* to MaxDue rows.  Here a row carries the columns the query orders by:    *)
(* priority, a VARCHAR(20), and scheduled_send_time.  The send times       *)
(* before MaxSendTime lie inside NOW() + INTERVAL '5 minutes'.             *)
(***************************************************************************)
Priorities == {"low", "medium", "high", "urgent"}

(* ORDER BY priority compares the column as text: the four values differ   *)
(* in their first character, whose code decides the comparison.            *)
PriorityText(priority) ==
  CASE priority = "high" -> 104
    [] priority = "low" -> 108
    [] priority = "medium" -> 109
    [] priority = "urgent" -> 117

(* ORDER BY priority DESC, scheduled_send_time ASC: a sorts before b. *)
SortsBefore(a, b) ==
  \/ PriorityText(a.priority) > PriorityText(b.priority)
  \/ (a.priority = b.priority /\ a.scheduled_send_time < b.scheduled_send_time)

(* The results the query may return: the selected rows in an order the     *)
(* ORDER BY admits (rows equal in both keys come in any order), cut at the *)
(* LIMIT.                                                                  *)
getPendingNotificationsOrdered ==
  LET ids == getPendingNotifications
      k == Cardinality(ids)
      sorted == {f \in [1..k -> ids] :
                   /\ \A i, j \in 1..k : i # j => f[i] # f[j]
                   /\ \A i, j \in 1..k :
                        i < j => ~SortsBefore(notifications[f[j]], notifications[f[i]])}
  IN {SubSeq(f, 1, IF k < SelectLimit THEN k ELSE SelectLimit) : f \in sorted}

getPriorityValue(priority) ==
  CASE priority = "low" -> 3
    [] priority = "medium" -> 5
    [] priority = "high" -> 7
    [] priority = "urgent" -> 10
    [] OTHER -> 5

(* exports.handler of the scheduler: the query, then queueNotification for *)
(* every row of its result, each publishing with getPriorityValue.         *)
schedulerHandler ==
  /\ pendingNotifications = <<>>
  /\ \E result \in getPendingNotificationsOrdered :
       LET selected == {result[i] : i \in 1..Len(result)}
       IN /\ result # <<>>
          /\ pendingNotifications' = result
          /\ notifications' =
               [n \in DOMAIN notifications |->
                  IF n \in selected
                    THEN [notifications[n] EXCEPT !.status = "queued", !.cooled = FALSE]
                    ELSE notifications[n]]
          /\ queue' = [n \in DOMAIN queue |-> IF n \in selected THEN queue[n] + 1 ELSE queue[n]]
  /\ UNCHANGED <<sends, successes, batch, retrySel, dispatch, workerLog, messages, apptVars,
                 prefVars, cacheVars>>

SchedulerRows ==
  {[status |-> st, retry_count |-> 0, due |-> (t < MaxSendTime), cooled |-> FALSE,
    notification_type |-> "appointment_reminder", delivery_details |-> "{}",
    priority |-> p, scheduled_send_time |-> t] :
     st \in NotificationStatuses, p \in Priorities, t \in 0..MaxSendTime}

InitScheduler ==
  /\ \E k \in 1..MaxDue :
       /\ notifications \in [1..k -> SchedulerRows]
       /\ queue = [n \in 1..k |-> 0]
       /\ sends = [n \in 1..k |-> 0]
       /\ successes = [n \in 1..k |-> 0]
  /\ batch = {}
  /\ retrySel = {}
  /\ cache = EmptyCache
  /\ reader = IdleReader
  /\ dispatch = NoDispatch
  /\ quietCall = NoCall
  /\ channelCall = NoCall
  /\ workerLog = NoWorkerLog
  /\ pendingNotifications = <<>>
  /\ messages = <<>>
  /\ appointments = <<>>
  /\ seriesCount = 0
  /\ lastOp = NoOp
  /\ txn = [c \in Clients |-> IdleTxn]
  /\ listing = NoListing

NextScheduler == schedulerHandler

SpecScheduler == InitScheduler /\ [][NextScheduler]_vars

(* C21: within one scheduler run the due pending notifications are selected
   and queued with higher priority first (urgent before high before medium
   before low), ties broken by earlier scheduled_send_time; a notification
   the run leaves out is not of higher priority than one it takes. *)
HigherPriorityFirst ==
  /\ \A i, j \in 1..Len(pendingNotifications) :
       i < j =>
         LET a == notifications[pendingNotifications[i]]
             b == notifications[pendingNotifications[j]]
         IN \/ getPriorityValue(a.priority) > getPriorityValue(b.priority)
            \/ /\ a.priority = b.priority
               /\ a.scheduled_send_time <= b.scheduled_send_time
  /\ pendingNotifications # <<>> =>
       \A n \in getPendingNotifications, i \in 1..Len(pendingNotifications) :
         getPriorityValue(notifications[n].priority)
           <= getPriorityValue(notifications[pendingNotifications[i]].priority)

(***************************************************************************)
(* Properties of the dispatcher's error handling and of the retry sweep.   *)
(***************************************************************************)

(* C22: when a dispatch fails with a non-retryable error class (malformed
   recipient address, recipient opted out, unknown notification type) the
   notification goes directly to failed, whatever its retry_count, and is
   not set back to pending afterwards. *)
NonRetryableGoesToFailed ==
  [][\A n \in NotifIds :
       /\ (/\ notifications[n].status # "delivered"
           /\ processNotification(n, FALSE, TRUE, FALSE)
           /\ workerLog'.id = n
           /\ \/ workerLog'.code \in nonRetryableErrors
              \/ notifications[n].notification_type \notin loadNotificationTemplates)
            => notifications'[n].status = "failed"
       /\ (/\ workerLog.id = n
           /\ workerLog.code \in nonRetryableErrors
           /\ notifications[n].status = "failed")
            => notifications'[n].status # "pending"]_vars

(* C23: a notification for which no delivery channel is available is set to
   failed without a send attempt, and the retry sweep does not return it to
   pending afterwards. *)
NoChannelIsTerminal ==
  [][\A n \in NotifIds :
       /\ (/\ notifications[n].status # "delivered"
           /\ \E sendOk \in BOOLEAN : processNotification(n, FALSE, FALSE, sendOk))
            => (notifications'[n].status = "failed" /\ sends'[n] = sends[n])
       /\ (/\ dispatch = [id |-> n, outcome |-> "nochannel"]
           /\ notifications[n].status = "failed"
           /\ retryUpdate(n))
            => notifications'[n].status # "pending"]_vars

(* C24: if publishing to the queue fails in queueNotification, the
   notification ends with delivery_status failed and an error detail in
   delivery_details; it is left neither pending nor queued, and its
   retry_count is unchanged. *)
PublishFailureMarksFailed ==
  [][\A n \in NotifIds :
       queueNotification(n, TRUE)
         => /\ notifications'[n].status = "failed"
            /\ notifications'[n].delivery_details = "error"
            /\ notifications'[n].retry_count = notifications[n].retry_count]_vars

(* A scheduler run could not publish a notification that was never sent:
   the row is failed with the error recorded and no attempt counted. *)
PublishFailureRecorded ==
  \E n \in NotifIds :
    /\ notifications[n].status = "failed"
    /\ notifications[n].delivery_details = "error"
    /\ notifications[n].retry_count = 0
    /\ sends[n] = 0
    /\ queue[n] = 0

(* C25: retryFailedNotifications changes exactly the failed notifications
   with retry_count < 3 whose last update is older than the cooldown: each
   becomes pending with retry_count increased by 1 and a send time of now;
   every other notification is left unchanged. *)
RetrySweepFrame ==
  [][\A n \in NotifIds :
       retryUpdate(n)
         => /\ IF n \in retryEligible
                 THEN notifications'[n] =
                        [notifications[n] EXCEPT !.status = "pending", !.retry_count = @ + 1,
                                                 !.due = TRUE, !.cooled = FALSE]
                 ELSE notifications'[n] = notifications[n]
            /\ \A m \in NotifIds \ {n} : notifications'[m] = notifications[m]]_vars

(***************************************************************************)
(* The pipeline with its workers kept running: the scheduler and the retry *)
(* sweep are invoked again and again, time passes, publishing succeeds     *)
(* again and again, and the consumer again and again dispatches a waiting  *)
(* message outside quiet hours, with a channel and a transport that work.  *)
(***************************************************************************)
DispatchFavourably(n) ==
  \E rc \in 0..MaxRetryCount :
    processNotificationMessage(n, [retryCount |-> rc], FALSE, TRUE, TRUE, TemplateError)

FairNotif ==
  /\ SF_vars(schedulerSelect)
  /\ SF_vars(retrySelect)
  /\ \A n \in NotifIds :
       /\ SF_vars(queueNotification(n, FALSE))
       /\ SF_vars(retryUpdate(n))
       /\ SF_vars(BecomesDue(n))
       /\ SF_vars(CoolsDown(n))
       /\ SF_vars(DispatchFavourably(n))

SpecNotifLive == Init /\ [][NextNotif]_vars /\ FairNotif

(* C26: every notification eventually reaches delivered or terminal failed,
   provided the scheduler, the retry sweep and the dispatcher keep running:
   no notification stays pending or queued forever.  (A notification whose
   transport count stands at the bound of the model is left out.) *)
EventuallyTerminal ==
  \A n \in NotifIds :
    (notifications[n].status \in {"pending", "queued"})
      ~> \/ notifications[n].status = "delivered"
         \/ (notifications[n].status = "failed" /\ notifications[n].retry_count >= MaxRetryCount)
         \/ sends[n] >= MaxSends

(***************************************************************************)
(* consumeFromQueue, message by message.  A message is published without   *)
(* an x-retry-count header; nack with requeue puts the same message, with  *)
(* the same headers, back into the queue; nack without requeue hands it to *)
(* the dead-letter exchange of the queue.                                  *)
(***************************************************************************)
Published == [at |-> "queue", xRetryCount |-> XRetryCount, deliveries |-> 0]

consumeFromQueue(m, threw) ==
  /\ m \in DOMAIN messages
  /\ messages[m].at = "queue"
  /\ messages[m].deliveries < MaxDeliveries
  /\ messages' =
       [messages EXCEPT
          ![m].deliveries = @ + 1,
          ![m].at = IF ~threw THEN "acked"
                    ELSE IF RequeueOnError(messages[m].xRetryCount) THEN "queue"
                    ELSE "notifications.dlq"]
  /\ UNCHANGED <<workerLog, pendingNotifications, apptVars, notifVars, prefVars, cacheVars>>

InitQueue ==
  /\ \E k \in 1..MaxMessages : messages = [m \in 1..k |-> Published]
  /\ appointments = <<>>
  /\ seriesCount = 0
  /\ lastOp = NoOp
  /\ txn = [c \in Clients |-> IdleTxn]
  /\ listing = NoListing
  /\ cache = EmptyCache
  /\ reader = IdleReader
  /\ dispatch = NoDispatch
  /\ quietCall = NoCall
  /\ channelCall = NoCall
  /\ workerLog = NoWorkerLog
  /\ pendingNotifications = <<>>
  /\ notifications = [n \in NotifIds |-> NoNotification]
  /\ queue = [n \in NotifIds |-> 0]
  /\ sends = [n \in NotifIds |-> 0]
  /\ successes = [n \in NotifIds |-> 0]
  /\ batch = {}
  /\ retrySel = {}

NextQueue == \E m \in 1..MaxMessages, threw \in BOOLEAN : consumeFromQueue(m, threw)

SpecQueue == InitQueue /\ [][NextQueue]_vars

(* C27: a queue message whose handler fails on every delivery is requeued
   only a bounded number of times (fewer than 3) and is then dead-lettered:
   a message still in the queue has failed fewer than 3 deliveries. *)
RequeueIsBounded ==
  \A m \in DOMAIN messages : messages[m].at = "queue" => messages[m].deliveries < RequeueLimit

(* C28: a scheduler run moves to queued, and publishes, only notifications
   that are pending with a send time inside the lookahead; notifications
   that are not pending or not yet due are left unchanged. *)
SchedulerQueuesOnlyDue ==
  [][\A n \in NotifIds :
       (\E publishFails \in BOOLEAN : queueNotification(n, publishFails))
         => /\ (notifications[n].status = "pending" /\ notifications[n].due)
                 \/ (notifications'[n] = notifications[n] /\ queue'[n] = queue[n])
            /\ \A m \in NotifIds \ {n} :
                 notifications'[m] = notifications[m] /\ queue'[m] = queue[m]]_vars

(***************************************************************************)
(* Reminders of an appointment.  createNotification has stored, for a live *)
(* appointment, appointment_reminder rows with its appointment_id and a    *)
(* send time computed from its scheduled_start; reminder_for keeps the     *)
(* scheduled_start the send time was computed from.  The appointment is    *)
(* then cancelled, marked no-show or rescheduled while the scheduler and   *)
(* the consumer run.                                                       *)
(***************************************************************************)
ReminderRow(appointment_id, scheduled_start) ==
  [status |-> "pending", retry_count |-> 0, due |-> FALSE, cooled |-> FALSE,
   notification_type |-> "appointment_reminder", delivery_details |-> "{}",
   appointment_id |-> appointment_id, reminder_for |-> scheduled_start]

InitReminders ==
  /\ \E p \in Providers, st \in Starts :
       /\ appointments = <<Row("tA", p, st, st + 1, "scheduled")>>
       /\ notifications = [n \in NotifIds |-> ReminderRow(1, st)]
  /\ seriesCount = 0
  /\ lastOp = NoOp
  /\ txn = [c \in Clients |-> IdleTxn]
  /\ listing = NoListing
  /\ cache = EmptyCache
  /\ reader = IdleReader
  /\ dispatch = NoDispatch
  /\ quietCall = NoCall
  /\ channelCall = NoCall
  /\ workerLog = NoWorkerLog
  /\ pendingNotifications = <<>>
  /\ messages = <<>>
  /\ queue = [n \in NotifIds |-> 0]
  /\ sends = [n \in NotifIds |-> 0]
  /\ successes = [n \in NotifIds |-> 0]
  /\ batch = {}
  /\ retrySel = {}

NextReminders ==
  \/ \E i \in ApptIds : cancelAppointment("tA", i, FALSE)
  \/ \E i \in ApptIds : updateAppointment("tA", i, [status |-> "no-show"])
  \/ \E i \in ApptIds, st \in Starts :
       \E d \in Durations(st) : rescheduleAppointment("tA", i, st, d, FALSE)
  \/ \E n \in NotifIds : BecomesDue(n)
  \/ schedulerSelect
  \/ \E n \in NotifIds : queueNotification(n, FALSE)
  \/ \E n \in NotifIds, quiet \in BOOLEAN, hasChannel \in BOOLEAN, sendOk \in BOOLEAN :
       processNotificationMessage(n, [retryCount |-> 0], quiet, hasChannel, sendOk,
                                  [code |-> "Throttling", statusCode |-> 0])

SpecReminders == InitReminders /\ [][NextReminders]_vars

(* C29: after cancelAppointment no appointment_reminder of that appointment
   is sent: the dispatcher invokes no channel transport for a reminder
   whose appointment is cancelled or no-show at send time. *)
NoReminderForDeadAppointment ==
  [][\A n \in NotifIds :
       (notifications[n].notification_type = "appointment_reminder" /\ sends'[n] > sends[n])
         => Live(appointments[notifications[n].appointment_id].status)]_vars

(* C30: after a successful rescheduleAppointment no reminder that was
   scheduled relative to the appointment's old start time is sent. *)
NoStaleReminder ==
  [][\A n \in NotifIds :
       (notifications[n].notification_type = "appointment_reminder" /\ sends'[n] > sends[n])
         => notifications[n].reminder_for = appointments[notifications[n].appointment_id].start]_vars

(***************************************************************************)
(* The time columns of the appointments table.                             *)
(***************************************************************************)

(* C31: in every reachable state each appointment satisfies
   scheduled_end = scheduled_start + duration_minutes and
   scheduled_end > scheduled_start, after any of createAppointment,
   createAppointmentSeries, rescheduleAppointment and updateAppointment. *)
EndIsStartPlusDuration ==
  \A i \in 1..Len(appointments) :
    /\ appointments[i].end = appointments[i].start + appointments[i].duration
    /\ appointments[i].end > appointments[i].start

(***************************************************************************)
(* The slot finder over calendar dates.  A date is the number of its day,  *)
(* day 0 a Sunday; a rule of provider_availability carries its weekday,    *)
(* its is_available flag and its effective dates.  No appointment is       *)
(* booked, and a day's slots are counted as one entry per rule and date:   *)
(* a rule's window is not empty (chk_availability_times), so the slot loop *)
(* produces a slot on every date it runs for.                              *)
(***************************************************************************)
MaxDate == 3           \* calendar dates 0..MaxDate

Dates == 0..MaxDate

(* effective_until IS NULL *)
Null == 0 - 1

(* currentDate.getDay() *)
getDay(date) == date % 7

DatedRules ==
  [provider_id : Providers, day_of_week : 0..6, is_available : BOOLEAN,
   effective_from : Dates, effective_until : Dates \cup {Null}]

(* The tables of up to n rules. *)
RECURSIVE DatedTablesUpTo(_)
DatedTablesUpTo(n) ==
  IF n = 0
    THEN {{}}
    ELSE LET smaller == DatedTablesUpTo(n - 1)
         IN smaller \cup {a \cup {r} : a \in smaller, r \in DatedRules}

DatedTables == DatedTablesUpTo(MaxRules)

DateFilters == [providerId : Providers \cup {"any"}, startDate : Dates, endDate : Dates]

(* The availability query of findAvailableSlots: the rules of the tenant's *)
(* providers (and of the provider asked for) with is_available = true AND  *)
(* (effective_until IS NULL OR effective_until >= CURRENT_DATE).           *)
availabilityQuery(availabilityTable, tenantId, filters, CURRENT_DATE) ==
  {pa \in availabilityTable :
     /\ ProviderTenant(pa.provider_id) = tenantId
     /\ filters.providerId # "any" => pa.provider_id = filters.providerId
     /\ pa.is_available
     /\ (pa.effective_until = Null \/ pa.effective_until >= CURRENT_DATE)}

(* The day loop of calculateAvailableSlots: for every date from startDate  *)
(* to endDate the rules with avail.day_of_week === dayOfWeek; a slot is    *)
(* pushed when slotStart > new Date(), which holds on the dates after      *)
(* today and, when the clock stands before the window (early), today.      *)
calculateAvailableSlotsByDate(availability, startDate, endDate, today, early) ==
  UNION {{[provider_id |-> avail.provider_id, date |-> currentDate] :
            currentDate \in {d \in startDate..endDate :
                               /\ avail.day_of_week = getDay(d)
                               /\ d > today \/ (d = today /\ early)}} :
           avail \in availability}

(* A listing request over dates. *)
ListSlotsByDate(tenantId, filters, availabilityTable, today, early) ==
  /\ listing = NoListing
  /\ listing' = [tenant |-> tenantId, availability |-> availabilityTable,
                 slots |-> calculateAvailableSlotsByDate(
                             availabilityQuery(availabilityTable, tenantId, filters, today),
                             filters.startDate, filters.endDate, today, early)]
  /\ UNCHANGED <<appointments, seriesCount, lastOp, txn, notifVars, prefVars, workerVars,
                 cacheVars>>

NextDates ==
  /\ listing = NoListing
  /\ \E t \in Tenants, f \in DateFilters, a \in DatedTables, today \in Dates, early \in BOOLEAN :
       ListSlotsByDate(t, f, a, today, early)

SpecDates == Init /\ [][NextDates]_vars

(* The rule is active, matches the date's day of week and is effective on it. *)
Applicable(rule, date) ==
  /\ rule.is_available
  /\ rule.day_of_week = getDay(date)
  /\ rule.effective_from <= date
  /\ (rule.effective_until = Null \/ rule.effective_until >= date)

(* C32: findAvailableSlots produces slots for a calendar date only from
   availability rules that are active, match that date's day of week and
   are effective on that date (effective_from <= date, and effective_until
   absent or >= date). *)
SlotsOnlyFromApplicableRules ==
  listing # NoListing =>
    \A slot \in listing.slots :
      \E rule \in listing.availability :
        rule.provider_id = slot.provider_id /\ Applicable(rule, slot.date)

(* C38: every slot returned by findAvailableSlots lies entirely inside its
   rule's window on that date: slot start >= rule start_time and slot end
   <= rule end_time, also when the window length is not a multiple of
   slot_duration. *)
SlotsInsideWindow ==
  listing # NoListing =>
    \A slot \in listing.slots :
      \E rule \in listing.availability :
        /\ rule.provider_id = slot.provider_id
        /\ rule.slot_duration = slot.duration_minutes
        /\ slot.start_time >= rule.start_time
        /\ slot.end_time <= rule.end_time

(***************************************************************************)
(* getAppointmentById as a request of its own, next to the writers: its    *)
(* three awaits are three steps, cache.get, the SELECT on a miss, and      *)
(* cache.setex of the row the SELECT returned.  The writers run as single  *)
(* steps, COMMIT and cache.del together.  Entries do not expire.           *)
(***************************************************************************)
getAppointmentByIdGet(tenantId, appointmentId) ==
  LET cached == cache[cacheKey(tenantId, appointmentId)]
  IN
  /\ reader.pc = "idle"
  /\ reader' = IF cached # NoEntry
                 THEN [IdleReader EXCEPT !.tenant = tenantId, !.id = appointmentId,
                                         !.result = cached]
                 ELSE [IdleReader EXCEPT !.pc = "missed", !.tenant = tenantId,
                                         !.id = appointmentId]
  /\ UNCHANGED <<cache, apptVars, notifVars, prefVars, workerVars>>

getAppointmentByIdQuery ==
  /\ reader.pc = "missed"
  /\ reader' = IF NotFound(reader.tenant, reader.id)
                 THEN [reader EXCEPT !.pc = "idle"]
                 ELSE [reader EXCEPT !.pc = "fetched", !.row = appointments[reader.id]]
  /\ UNCHANGED <<cache, apptVars, notifVars, prefVars, workerVars>>

getAppointmentByIdStore ==
  /\ reader.pc = "fetched"
  /\ cache' = cache_setex(cacheKey(reader.tenant, reader.id), reader.row)
  /\ reader' = [reader EXCEPT !.pc = "idle", !.row = NoEntry, !.result = reader.row]
  /\ UNCHANGED <<apptVars, notifVars, prefVars, workerVars>>

InitCache ==
  /\ \E s \in Starts : \E d \in Durations(s) :
       appointments = <<Row("tA", "p1", s, s + d, "scheduled")>>
  /\ seriesCount = 0
  /\ lastOp = NoOp
  /\ txn = [c \in Clients |-> IdleTxn]
  /\ listing = NoListing
  /\ NotifInit

NextCache ==
  \/ \E i \in ApptIds : getAppointmentByIdGet("tA", i)
  \/ getAppointmentByIdQuery
  \/ getAppointmentByIdStore
  \/ \E u \in SequenceUpdateDatas : updateAppointment("tA", 1, u)
  \/ cancelAppointment("tA", 1, FALSE)
  \/ checkinAppointment("tA", 1)
  \/ \E s \in Starts :
       \E d \in Durations(s) : rescheduleAppointment("tA", 1, s, d, FALSE)

SpecCache == InitCache /\ [][NextCache]_vars

(* C33: for any interleaving of getAppointmentById with a committed
   updateAppointment, cancelAppointment, rescheduleAppointment or
   checkinAppointment on the same appointment, once both calls have
   finished the cache holds no entry older than the committed row: a later
   getAppointmentById returns the current status and times. *)
CacheIsCurrent ==
  reader.pc = "idle" =>
    \A t \in Tenants, i \in ApptIds :
      \/ cache[cacheKey(t, i)] = NoEntry
      \/ /\ ~NotFound(t, i)
         /\ cache[cacheKey(t, i)] = appointments[i]

(***************************************************************************)
(* MedicationService.queueMedicationReminders.  Days are counted from the  *)
(* medication's start date; a reminder time is its hour of the day.        *)
(***************************************************************************)
MaxReminderDays == 170   \* the last day of the medication, counted from its start
MaxNowDay == 1           \* the call is made on day 0..MaxNowDay

maxReminders == 500

(* The phrase of medication.frequency that parseFrequencyToReminderTimes   *)
(* matches first; "as needed" stands for a frequency that matches none.    *)
Frequencies ==
  {"once", "twice", "three", "four", "every 8 hour", "every 6 hour", "every 4 hour", "as needed"}

(* medication.schedule_details: without times, or with explicit times. *)
ScheduleDetails == {<<>>, [times |-> <<7, 19>>]}

parseFrequencyToReminderTimes(frequency, scheduleDetails) ==
  IF "times" \in DOMAIN scheduleDetails THEN scheduleDetails.times
  ELSE IF frequency = "once" THEN <<9>>
  ELSE IF frequency = "twice" THEN <<9, 21>>
  ELSE IF frequency = "three" THEN <<9, 15, 21>>
  ELSE IF frequency = "four" THEN <<9, 13, 17, 21>>
  ELSE IF frequency = "every 8 hour" THEN <<8, 16, 0>>
  ELSE IF frequency = "every 6 hour" THEN <<8, 14, 20, 2>>
  ELSE IF frequency = "every 4 hour" THEN <<8, 12, 16, 20, 0, 4>>
  ELSE <<9>>

(* The clock of the call: a day and an hour. *)
Nows == [day : 0..MaxNowDay, hour : {0, 12}]

(* reminderDateTime > new Date() *)
IsFuture(day, hour, now) == day > now.day \/ (day = now.day /\ hour > now.hour)

(* The while loop: as long as currentDate <= endDate and                   *)
(* reminderCount < maxReminders, one reminder per future time of the day.  *)
RECURSIVE CountReminders(_, _, _, _, _)
CountReminders(currentDate, endDate, reminderTimes, now, reminderCount) ==
  IF currentDate <= endDate /\ reminderCount < maxReminders
    THEN CountReminders(currentDate + 1, endDate, reminderTimes, now,
                        reminderCount
                          + Cardinality({i \in 1..Len(reminderTimes) :
                                           IsFuture(currentDate, reminderTimes[i], now)}))
    ELSE reminderCount

(* The call with a queue that accepts every message: every reminder of the *)
(* list is published.                                                      *)
queueMedicationReminders(frequency, scheduleDetails, endDate, now) ==
  LET reminderTimes == parseFrequencyToReminderTimes(frequency, scheduleDetails)
  IN
  /\ lastOp' = [Call("queueMedicationReminders", "tA") EXCEPT
                  !.end = endDate, !.start = now.day * 24 + now.hour,
                  !.members = reminderTimes,
                  !.published = CountReminders(0, endDate, reminderTimes, now, 0)]
  /\ UNCHANGED <<appointments, seriesCount, txn, listing, notifVars, prefVars, workerVars,
                 cacheVars>>

NextMedication ==
  /\ lastOp = NoOp
  /\ \E frequency \in Frequencies, scheduleDetails \in ScheduleDetails,
        endDate \in 0..MaxReminderDays, now \in Nows :
       queueMedicationReminders(frequency, scheduleDetails, endDate, now)

SpecMedication == Init /\ [][NextMedication]_vars

(* C34: queueMedicationReminders publishes at most 500 medication_reminder
   messages for one medication, for every number of reminder times per day
   and every date range. *)
AtMostMaxReminders ==
  lastOp.op = "queueMedicationReminders" => lastOp.published <= maxReminders

(***************************************************************************)
(* Sends that a transport accepted.                                        *)
(***************************************************************************)

(* C35: for any interleaving of overlapping scheduler runs,
   createNotification, queue redeliveries and concurrent dispatcher
   workers, each notification is successfully sent through a channel
   transport at most once. *)
SentSuccessfullyAtMostOnce == \A n \in NotifIds : successes[n] <= 1

(* C36: the dispatcher never invokes a channel transport for a
   notification earlier than that notification's current
   scheduled_send_time minus the 5-minute scheduler lookahead, also after
   a failed attempt has pushed scheduled_send_time 30 minutes ahead and
   the queue has redelivered the message. *)
NoSendBeforeSendTime ==
  [][\A n \in NotifIds : sends'[n] > sends[n] => notifications[n].due]_vars

(* C37: when createAppointmentSeries fails and rolls back, no notification
   message has been published for any appointment of that series. *)
FailedSeriesPublishesNothing ==
  (lastOp.op = "createAppointmentSeries" /\ lastOp.result # "ok") => lastOp.published = 0

====
